---- MODULE Spec2Model ----
(***************************************************************************)
(* A model of compas_ags: the constraint collection                        *)
(* (src/src/compas_ags/ags/constraints.py) and the graphic-statics entry   *)
(* points (src/src/compas_ags/ags/graphstatics.py).                        *)
(***************************************************************************)
EXTENDS Integers, Sequences, FiniteSets, TLC

VARIABLES
    constraints,   \* ConstraintsCollection.constraints, a list
    added,         \* history: the constraints in the order add_constraint got them
    cret,          \* outcome of the last compute_constraints call
    form,          \* the form diagram: vertices, edges and their attributes
    force,         \* the force diagram
    ret,           \* the last graphstatics call: its name, what it raised or
                   \* returned, and both diagrams as they were before it
    identified,    \* the last form_identify_dof: the diagram it got, its result
    counted,       \* the last form_count_dof: the diagram it got, its result
    calls,         \* number of update calls made
    run            \* the form_update_from_force call in progress: where it is,
                   \* the sweeps made, its working copy of the coordinates

vars == <<constraints, added, cret, form, force, ret, identified, counted, calls, run>>

gvars == <<form, force, ret, identified, counted, calls, run>>

\* ------------------------------------------------------------------------
\* bounds
\* ------------------------------------------------------------------------

\* longest collection built by add_constraint
MaxConstraints == 3

\* most update calls in one run
MaxCalls == 1

\* largest kmax passed to form_update_from_force
MaxKmax == 1

\* def form_update_from_force(form, force, kmax=100)
DefaultKmax == 100

\* ------------------------------------------------------------------------
\* generic helpers
\* ------------------------------------------------------------------------

Range(s) == {s[i] : i \in 1..Len(s)}

\* the sequence f[1], ..., f[n], evaluated once
Tuple(f, n) == SubSeq(f, 1, n)

\* ------------------------------------------------------------------------
\* constraints.py
\* ------------------------------------------------------------------------

\* The form diagrams constraints are built against, each given by the keys
\* of its vertices in the order form.vertices() yields them.  The two have
\* different vertex counts, share keys at different positions, and key 3 is
\* a vertex of "FB" only.
ConForms == {"FA", "FB"}

ConFormKeys(f) == IF f = "FA" THEN <<5, 7>> ELSE <<7, 3, 5>>

ConKeys == {3, 5, 7}

\* form.number_of_vertices()
number_of_vertices(f) == Len(ConFormKeys(f))

\* form.key_index(): key -> position (from 0) in the order of form.vertices()
key_index(f) ==
    [k \in Range(ConFormKeys(f)) |->
        CHOOSE i \in 0..(Len(ConFormKeys(f)) - 1) : ConFormKeys(f)[i + 1] = k]

\* the constraint objects: HorizontalFix(form, vertex), VerticalFix(form, vertex)
Constraint == [kind : {"HorizontalFix", "VerticalFix"}, form : ConForms, vertex : ConKeys]

number_of_cols_fixed(c) == 2 * 3

\* AbstractConstraint.number_of_cols
number_of_cols(c) == 2 * number_of_vertices(c.form)

\* np.zeros((1, n)) with entry [0, idx] set to 1; idx counts from 0
onehot(n, idx) == [i \in 1..n |-> IF i = idx + 1 THEN 1 ELSE 0]

\* HorizontalFix.compute_constraint: the lookup in key_index() raises KeyError
\* for a vertex that is not in the form
HorizontalFix_compute(c) ==
    IF c.vertex \notin DOMAIN key_index(c.form)
    THEN [err |-> "KeyError"]
    ELSE [err |-> "none",
          row |-> onehot(number_of_cols(c), key_index(c.form)[c.vertex]),
          r   |-> 0]

VerticalFix_idx_noshift(c) == key_index(c.form)[c.vertex]

\* VerticalFix.compute_constraint, line 71: the column of the vertex's y
VerticalFix_idx(c) == key_index(c.form)[c.vertex] + number_of_vertices(c.form)

\* VerticalFix.compute_constraint
VerticalFix_compute(c) ==
    IF c.vertex \notin DOMAIN key_index(c.form)
    THEN [err |-> "KeyError"]
    ELSE [err |-> "none",
          row |-> onehot(number_of_cols(c), VerticalFix_idx(c)),
          r   |-> 0]

\* constraint.compute_constraint(), dispatched on the constraint's class
compute_constraint(c) ==
    IF c.kind = "HorizontalFix" THEN HorizontalFix_compute(c) ELSE VerticalFix_compute(c)

vstack_front(m, row) == <<row>> \o m

\* np.vstack((m, row)) once the widths are known to agree: row goes below m
vstack(m, row) == Append(m, row)

\* the loop of compute_constraints from constraint i on; ncols is the width
\* of jac, fixed by np.zeros((0, ncols)).  np.vstack raises ValueError when
\* the row's width is not the width of jac.
RECURSIVE stack_from(_, _, _, _, _)
stack_from(cs, i, ncols, jac, res) ==
    IF i > Len(cs)
    THEN [status |-> "ok", ncols |-> ncols, jac |-> jac, res |-> res]
    ELSE LET jr == compute_constraint(cs[i])
         IN  IF jr.err # "none"
             THEN [status |-> jr.err]
             ELSE IF Len(jr.row) # ncols
             THEN [status |-> "ValueError"]
             ELSE stack_from(cs, i + 1, ncols, vstack(jac, jr.row), vstack(res, jr.r))

\* an empty collection gives a Jacobian and a residual of no rows
compute_constraints_empty(cs) ==
    IF cs = <<>>
    THEN [status |-> "ok", ncols |-> 0, jac |-> <<>>, res |-> <<>>]
    ELSE stack_from(cs, 1, number_of_cols(cs[1]), <<>>, <<>>)

\* ConstraintsCollection.compute_constraints: self.constraints[0] raises
\* IndexError on an empty list
compute_constraints_of(cs) ==
    IF cs = <<>>
    THEN [status |-> "IndexError"]
    ELSE stack_from(cs, 1, number_of_cols(cs[1]), <<>>, <<>>)

\* ConstraintsCollection.add_constraint
add_constraint(other) ==
    /\ Len(constraints) < MaxConstraints
    /\ constraints' = Append(constraints, other)
    /\ added' = Append(added, other)
    /\ UNCHANGED <<cret, gvars>>

\* ConstraintsCollection.compute_constraints; cret keeps the list the call
\* saw and what it returned or raised
compute_constraints ==
    /\ cret' = [cs |-> constraints, out |-> compute_constraints_of(constraints)]
    /\ UNCHANGED <<constraints, added, gvars>>

\* ConstraintsCollection.__init__
InitCollection ==
    /\ constraints = <<>>
    /\ added = <<>>
    /\ cret = [cs |-> <<>>, out |-> [status |-> "none"]]


\* ------------------------------------------------------------------------
\* numbers: the attributes q, f, l and the cosine of a are square roots of
\* rationals with a sign, s * sqrt(n / d), kept in lowest terms; d = 0 is
\* what floating point gives for a division by zero (inf when n = 1, nan
\* when n = 0).  Integers and lengths of integer vectors are of this form,
\* and it is closed under the products and quotients the code takes.
\* ------------------------------------------------------------------------

\* Body applied to the value of v, which is worked out once
With(v, Body(_)) == CHOOSE r \in {Body(x) : x \in {v}} : TRUE

Sgn(k) == IF k > 0 THEN 1 ELSE IF k < 0 THEN -1 ELSE 0

Abs(k) == IF k < 0 THEN -k ELSE k

RECURSIVE GCD(_, _)
GCD(a, b) == IF b = 0 THEN a ELSE With(a % b, LAMBDA r : GCD(b, r))

NumNorm(s, n, d) ==
    IF d = 0 THEN (IF n = 0 THEN [s |-> 0, n |-> 0, d |-> 0]
                            ELSE [s |-> s, n |-> 1, d |-> 0])
    ELSE IF n = 0 \/ s = 0 THEN [s |-> 0, n |-> 0, d |-> 1]
    ELSE [s |-> s, n |-> n \div GCD(n, d), d |-> d \div GCD(n, d)]

\* the float of integer k
IntNum(k) == NumNorm(Sgn(k), k * k, 1)

\* sqrt(n2) for an integer n2 >= 0
Root(n2) == NumNorm(1, n2, 1)

NumNeg(x) == [x EXCEPT !.s = -x.s]

NumMul(x, y) == NumNorm(x.s * y.s, x.n * y.n, x.d * y.d)

\* x / y in floating point: a zero divisor gives inf, or nan for 0 / 0
NumDiv(x, y) ==
    IF y.n = 0 /\ y.d # 0
    THEN NumNorm(x.s, x.n, 0)
    ELSE NumNorm(x.s * y.s, x.n * y.d, x.d * y.n)

NumPositive(x) == x.s = 1 /\ x.d # 0

\* ------------------------------------------------------------------------
\* linear algebra on integer matrices [nr, nc, a], a[i][j] for i in 1..nr,
\* j in 1..nc
\* ------------------------------------------------------------------------

Matrix(nr, nc, Entry(_, _)) ==
    [nr |-> nr, nc |-> nc,
     a |-> Tuple([i \in 1..nr |-> Tuple([j \in 1..nc |-> Entry(i, j)], nc)], nr)]

Transpose(M) == Matrix(M.nc, M.nr, LAMBDA i, j : M.a[j][i])

\* the columns cols (a sequence of column numbers from 1) of M
Columns(M, cols) == Matrix(M.nr, Len(cols), LAMBDA i, j : M.a[i][cols[j]])

\* the ascending sequence of the members of a finite set of integers
RECURSIVE Sorted(_)
Sorted(S) ==
    IF S = {} THEN <<>>
    ELSE LET m == CHOOSE x \in S : \A y \in S : x <= y
         IN  <<m>> \o Sorted(S \ {m})

\* Gauss-Jordan elimination from pivot row r and column c on: the row
\* reduction of rref.  Rows are combined without division, so each row of
\* the result is a nonzero integer multiple of the row of the reduced
\* row-echelon form; the zero pattern, which is all pivots() reads, is that
\* of the reduced row-echelon form.
RECURSIVE rref_from(_, _, _)
rref_from(M, r, c) ==
    IF r > M.nr \/ c > M.nc THEN M
    ELSE LET cand == {i \in r..M.nr : M.a[i][c] # 0}
         IN  IF cand = {} THEN rref_from(M, r, c + 1)
             ELSE LET p  == CHOOSE i \in cand : \A j \in cand : i <= j
                      sw == Tuple([i \in 1..M.nr |->
                                IF i = r THEN M.a[p] ELSE IF i = p THEN M.a[r] ELSE M.a[i]],
                                  M.nr)
                      el == Matrix(M.nr, M.nc,
                                   LAMBDA i, j :
                                     IF i = r THEN sw[r][j]
                                     ELSE sw[i][j] * sw[r][c] - sw[r][j] * sw[i][c])
                  IN  rref_from(el, r + 1, c + 1)

\* compas.numerical.rref_sympy
rref(M) == rref_from(M, 1, 1)

\* compas.numerical.pivots: the column (from 0) of the first nonzero entry of
\* every nonzero row
pivots(U) ==
    {j - 1 : j \in {jj \in 1..U.nc :
                      \E i \in 1..U.nr : /\ U.a[i][jj] # 0
                                         /\ \A k \in 1..(jj - 1) : U.a[i][k] = 0}}

\* compas.numerical.nonpivots: list(set(range(ncols)) - set(pivots)), which
\* CPython lists in ascending order for small integers
nonpivots(U) == Sorted((0..(U.nc - 1)) \ pivots(U))

\* compas.numerical.rank: the number of singular values >= 0.001, which for
\* the small integer matrices here is the exact rank (the least nonzero
\* singular value of an integer matrix of rank r <= 3 with entries of
\* absolute value <= 3 and at most 24 entries is above 1/216)
rank(M) == Cardinality(pivots(rref(M)))

\* compas.numerical.dof: k = columns - rank, m = rows - rank
dof(M) == <<M.nc - rank(M), M.nr - rank(M)>>

\* ------------------------------------------------------------------------
\* diagrams.  A form diagram is [keys, xy, is_fixed, edges, dual, eattr]:
\* keys are the vertex keys in the order of form.vertices(); xy and is_fixed
\* are the vertex attributes by position; edges are the pairs (u, v) of keys
\* in the order of form.edges(); dual[e] is the pair of force-diagram
\* vertices that edge e corresponds to; eattr[e] holds the edge attributes
\* q, f, l, a, is_edge, is_ind (a is kept as its cosine).  A force diagram
\* is [keys, xy, anchor, edges, eattr] with edge attributes a and l.
\* ------------------------------------------------------------------------

\* diagram.key_index() as the code binds it: k_i[key] is the position (from
\* 0) of the vertex in the order of diagram.vertices()
k_i(d) == [k \in Range(d.keys) |-> CHOOSE i \in 0..(Len(d.keys) - 1) : d.keys[i + 1] = k]

\* the positions (from 1) at which sequence s satisfies Test, ascending
Where(s, Test(_)) == Sorted({i \in 1..Len(s) : Test(i)})

\* form.fixed(): the keys of the vertices with is_fixed set
form_fixed(frm) == {frm.keys[i] : i \in {j \in 1..Len(frm.keys) : frm.is_fixed[j]}}

\* the number of edges at a vertex
degree(d, key) == Cardinality({e \in 1..Len(d.edges) : key \in {d.edges[e][1], d.edges[e][2]}})

\* form.leaves(): the keys of the vertices of degree 1, in vertex order
form_leaves(frm) == SelectSeq(frm.keys, LAMBDA key : degree(frm, key) = 1)

\* form.vertex_neighbors(key), in edge order
vertex_neighbors(d, key) ==
    LET at == Where(d.edges, LAMBDA e : key \in {d.edges[e][1], d.edges[e][2]})
    IN  Tuple([n \in 1..Len(at) |->
                  IF d.edges[at[n]][1] = key THEN d.edges[at[n]][2] ELSE d.edges[at[n]][1]],
              Len(at))

\* [(k_i[u], k_i[v]) for u, v in form.edges()]
edges_ij(d) ==
    Tuple([e \in 1..Len(d.edges) |-> <<k_i(d)[d.edges[e][1]], k_i(d)[d.edges[e][2]]>>],
          Len(d.edges))

\* entry (e, i) of connectivity_matrix(edges): -1 at the edge's first
\* vertex, +1 at its second (e from 1, i from 0)
C_entry(edges, e, i) ==
    (IF edges[e][2] = i THEN 1 ELSE 0) - (IF edges[e][1] = i THEN 1 ELSE 0)

\* the number of columns of connectivity_matrix(edges): the sparse matrix is
\* built without a shape, so it has one column more than the largest index
C_ncols(edges) ==
    IF Len(edges) = 0 THEN 0
    ELSE 1 + (CHOOSE m \in {edges[e][p] : e \in 1..Len(edges), p \in 1..2} :
                 \A e \in 1..Len(edges), p \in 1..2 : edges[e][p] <= m)

\* C.dot(xy): the coordinate differences along every edge
C_dot(edges, xy) ==
    Tuple([e \in 1..Len(edges) |->
              <<xy[edges[e][2] + 1][1] - xy[edges[e][1] + 1][1],
                xy[edges[e][2] + 1][2] - xy[edges[e][1] + 1][2]>>],
          Len(edges))

\* compas.numerical.equilibrium_matrix(C, xy, free): the rows of Ct.U over
\* those of Ct.V, both restricted to the free vertices; a row per free
\* vertex and coordinate, a column per edge
equilibrium_matrix(edges, xy, free) ==
    LET uv == C_dot(edges, xy)
        nf == Len(free)
    IN  Matrix(2 * nf, Len(edges),
               LAMBDA r, e : IF r <= nf THEN C_entry(edges, e, free[r]) * uv[e][1]
                                        ELSE C_entry(edges, e, free[r - nf]) * uv[e][2])

\* ------------------------------------------------------------------------
\* graphstatics.py: analysis of the form diagram
\* ------------------------------------------------------------------------

\* form_identify_dof, lines 151-152: the vertices that are not fixed
identify_free(frm) ==
    Sorted((0..(Len(frm.keys) - 1)) \ {k_i(frm)[key] : key \in form_fixed(frm)})

\* form_identify_dof, lines 153-155
identify_E(frm) == equilibrium_matrix(edges_ij(frm), frm.xy, identify_free(frm))

identify_ind_transposed(frm) == nonpivots(rref(Transpose(identify_E(frm))))

\* form_identify_dof, line 157
identify_ind(frm) == nonpivots(rref(identify_E(frm)))

identify_dof_swapped(frm) == <<dof(identify_E(frm))[2], dof(identify_E(frm))[1]>>

\* form_identify_dof, line 156
identify_dof(frm) == dof(identify_E(frm))

\* form_identify_dof: what it returns; edges[i] of an index past the edges
\* raises IndexError
form_identify_dof_of(frm) ==
    LET ind == identify_ind(frm)
    IN  IF \E i \in 1..Len(ind) : ind[i] >= Len(frm.edges)
        THEN [err |-> "IndexError"]
        ELSE [err |-> "none",
              k   |-> identify_dof(frm)[1],
              m   |-> identify_dof(frm)[2],
              ind |-> [i \in 1..Len(ind) |-> edges_ij(frm)[ind[i] + 1]]]

count_free_leaves(frm) ==
    Sorted((0..(Len(frm.keys) - 1)) \ {k_i(frm)[key] : key \in Range(form_leaves(frm))})

\* form_count_dof, lines 197-198
count_free(frm) ==
    Sorted((0..(Len(frm.keys) - 1)) \ {k_i(frm)[key] : key \in form_fixed(frm)})

\* form_count_dof, lines 199-201
count_E(frm) == equilibrium_matrix(edges_ij(frm), frm.xy, count_free(frm))

\* form_count_dof: what it returns
form_count_dof_of(frm) ==
    [err |-> "none", k |-> dof(count_E(frm))[1], m |-> dof(count_E(frm))[2]]

\* form_identify_dof(form)
form_identify_dof ==
    /\ ret' = [op |-> "form_identify_dof", err |-> form_identify_dof_of(form).err,
               form0 |-> form, force0 |-> force]
    /\ identified' = [has |-> TRUE, on |-> form, out |-> form_identify_dof_of(form)]
    /\ UNCHANGED <<form, force, counted, calls, constraints, added, cret, run>>

\* form_count_dof(form)
form_count_dof ==
    /\ ret' = [op |-> "form_count_dof", err |-> "none", form0 |-> form, force0 |-> force]
    /\ counted' = [has |-> TRUE, on |-> form, out |-> form_count_dof_of(form)]
    /\ UNCHANGED <<form, force, identified, calls, constraints, added, cret, run>>

\* ------------------------------------------------------------------------
\* graphstatics.py: updates
\* ------------------------------------------------------------------------

\* the position of the vertex with the given key
At(d, key) == d.xy[k_i(d)[key] + 1]

\* no edge
updq_ind_none(frm) == <<>>

\* form.ind(): the edges with is_ind set; as indices (from 0), line 236
updq_ind(frm) == Sorted({e - 1 : e \in {g \in 1..Len(frm.edges) : frm.eattr[g].is_ind}})

\* line 237
updq_dep(frm) == Sorted((0..(Len(frm.edges) - 1)) \ Range(updq_ind(frm)))

\* form_update_q_from_qind, lines 233-235: the leaves stand for the fixed
\* vertices
updq_free(frm) ==
    Sorted((0..(Len(frm.keys) - 1)) \ {k_i(frm)[key] : key \in Range(form_leaves(frm))})

\* lines 238-242
updq_E(frm) == equilibrium_matrix(edges_ij(frm), frm.xy, updq_free(frm))

\* the squared length of an integer vector
Norm2(v) == v[1] * v[1] + v[2] * v[2]

\* normrow: the length of every row
normrow(uv) == Tuple([e \in 1..Len(uv) |-> Root(Norm2(uv[e]))], Len(uv))

\* compas_ags.ags.core.update_q_from_qind(E, q, dep, ind): the force
\* densities of the dependent edges are solved from those of the independent
\* ones, the others are kept.  The solution is not computed here: qd gives
\* it, for every dependent edge.  The solve may give up on a dependent block
\* that is rank deficient (fails says whether it does).
update_q_from_qind(E, q, dep, qd, fails) ==
    IF fails /\ rank(Columns(E, [i \in 1..Len(dep) |-> dep[i] + 1])) < Len(dep)
    THEN [err |-> "SingularSystemError"]
    ELSE [err |-> "none",
          q |-> Tuple([e \in 1..Len(q) |-> IF (e - 1) \in Range(dep) THEN qd[e - 1] ELSE q[e]],
                      Len(q))]

\* form_update_q_from_qind(form): the diagram after the call and what it
\* raised.  C.dot(xy) raises ValueError unless C has a column per vertex.
form_update_q_from_qind_of(frm, qd, fails) ==
    LET edges == edges_ij(frm)
        q0    == Tuple([e \in 1..Len(edges) |-> frm.eattr[e].q], Len(edges))
        sol   == update_q_from_qind(updq_E(frm), q0, updq_dep(frm), qd, fails)
        l     == normrow(C_dot(edges, frm.xy))
    IN  IF C_ncols(edges) # Len(frm.keys) THEN [err |-> "ValueError", form |-> frm]
        ELSE IF sol.err # "none" THEN [err |-> sol.err, form |-> frm]
        ELSE [err |-> "none",
              form |-> [frm EXCEPT !.eattr =
                          Tuple([e \in 1..Len(edges) |->
                                    IF frm.eattr[e].is_edge
                                    THEN [frm.eattr[e] EXCEPT !.q = sol.q[e],
                                                              !.f = NumMul(sol.q[e], l[e]),
                                                              !.l = l[e]]
                                    ELSE frm.eattr[e]],
                                Len(edges))]]

\* force.ordered_edges(form): the edges of the force diagram, as pairs of
\* vertex indices, in the order of the form-diagram edges they correspond
\* to.  The correspondence has to be one-to-one: a form edge with no force
\* edge, or a force edge with no form edge, is a lookup error.
ordered_edges(frc, frm) ==
    LET Dual(e)  == {frm.dual[e], <<frm.dual[e][2], frm.dual[e][1]>>}
        Of(e)    == {n \in 1..Len(frc.edges) : frc.edges[n] \in Dual(e)}
        OneToOne == /\ \A e \in 1..Len(frm.edges) : Cardinality(Of(e)) = 1
                    /\ \A n \in 1..Len(frc.edges) : \E e \in 1..Len(frm.edges) : n \in Of(e)
    IN  IF ~OneToOne
        THEN [err |-> "KeyError"]
        ELSE [err |-> "none",
              edges |-> Tuple([e \in 1..Len(frm.edges) |->
                                  LET uv == frc.edges[CHOOSE n \in Of(e) : TRUE]
                                  IN  <<k_i(frc)[uv[1]], k_i(frc)[uv[2]]>>],
                              Len(frm.edges))]

\* _uv_e with the reversed pairs of line 321 only
force_uv_e_reversed(frc, oedges, key) ==
    LET Keys(e) == <<frc.keys[oedges[e][1] + 1], frc.keys[oedges[e][2] + 1]>>
        S       == {e \in 1..Len(oedges) : Keys(e) = <<key[2], key[1]>>}
    IN  IF S = {} THEN -1 ELSE (CHOOSE e \in S : \A g \in S : g <= e) - 1

\* _uv_e, lines 319 and 321: the index of the ordered edge with the given
\* pair of force vertex keys, either way round; -1 stands for KeyError.
\* A later ordered edge overwrites an earlier one with the same keys, and
\* line 321 overwrites a pair with the index of its reverse.
force_uv_e(frc, oedges, key) ==
    LET Keys(e) == <<frc.keys[oedges[e][1] + 1], frc.keys[oedges[e][2] + 1]>>
        Last(K) == LET S == {e \in 1..Len(oedges) : Keys(e) = K}
                   IN  IF S = {} THEN -1 ELSE (CHOOSE e \in S : \A g \in S : g <= e) - 1
        rev     == <<key[2], key[1]>>
    IN  IF Last(rev) # -1 THEN Last(rev) ELSE Last(key)

\* form_update_from_force, line 312: neither fixed nor a leaf
fuf_free(frm) ==
    Sorted(((0..(Len(frm.keys) - 1)) \ {k_i(frm)[key] : key \in form_fixed(frm)})
               \ {k_i(frm)[key] : key \in Range(form_leaves(frm))})

\* line 310
fuf_leaves(frm) ==
    Tuple([n \in 1..Len(form_leaves(frm)) |-> k_i(frm)[form_leaves(frm)[n]]],
          Len(form_leaves(frm)))

\* the leaves from the n-th on are put back at their old offset from their
\* one neighbour
RECURSIVE reconnect_leaves(_, _, _, _, _)
reconnect_leaves(frm, xy0, xy, leaves, n) ==
    IF n > Len(leaves) THEN xy
    ELSE LET i == leaves[n]
             j == k_i(frm)[vertex_neighbors(frm, frm.keys[i + 1])[1]]
         IN  With([xy EXCEPT ![i + 1] = <<xy[j + 1][1] + xy0[i + 1][1] - xy0[j + 1][1],
                                          xy[j + 1][2] + xy0[i + 1][2] - xy0[j + 1][2]>>],
                  LAMBDA moved : reconnect_leaves(frm, xy0, moved, leaves, n + 1))

\* compas_ags.ags.core.update_form_from_force(xy, _xy, free, leaves, i_j,
\* ij_e, _C, kmax): kmax sweeps over the free vertices, then the leaves are
\* reconnected.  Where a sweep puts the free vertices is not computed here:
\* to gives the positions after the last sweep.
update_form_from_force(frm, xy, free, leaves, kmax, to) ==
    reconnect_leaves(frm, xy,
        Tuple([i \in 1..Len(xy) |->
                  IF kmax > 0 /\ (i - 1) \in Range(free) THEN to[i] ELSE xy[i]], Len(xy)),
        leaves, 1)

\* angle_vectors_xy(u, v, deg=True), kept as its cosine u.v / (|u| |v|);
\* a vector of length zero gives nan
angle_vectors_xy(u, v) ==
    NumNorm(Sgn(u[1] * v[1] + u[2] * v[2]),
            (u[1] * v[1] + u[2] * v[2]) * (u[1] * v[1] + u[2] * v[2]),
            Norm2(u) * Norm2(v))

\* a <= 90
Le90(a) == a.d # 0 /\ a.s >= 0

\* a < 90, line 348: the cosine is positive; false for nan
Lt90(a) == a.d # 0 /\ a.s > 0

\* lines 357-360 from the n-th edge of the force diagram on: the first edge
\* that is not in _uv_e raises KeyError and ends the loop
RECURSIVE write_force_edges(_, _, _, _, _)
write_force_edges(frc, oedges, a, fl, n) ==
    IF n > Len(frc.edges) THEN [err |-> "none", force |-> frc]
    ELSE LET e == force_uv_e(frc, oedges, frc.edges[n])
         IN  IF e = -1 THEN [err |-> "KeyError", force |-> frc]
             ELSE With([frc EXCEPT !.eattr[n] = [a |-> a[e + 1], l |-> fl[e + 1]]],
                       LAMBDA written : write_force_edges(written, oedges, a, fl, n + 1))

\* lines 340-353: the vertices and the edges of the form diagram are written
write_form(frm, xy, a, l, fl, q) ==
    [frm EXCEPT !.xy = xy,
                !.eattr = Tuple([e \in 1..Len(frm.edges) |->
                    [frm.eattr[e] EXCEPT
                        !.l = l[e],
                        !.a = a[e],
                        !.f = IF Lt90(a[e]) THEN fl[e] ELSE NumNeg(fl[e]),
                        !.q = IF Lt90(a[e]) THEN q[e] ELSE NumNeg(q[e])]], Len(frm.edges))]

\* lines 331-360 on the coordinates xy the sweeps left: the lengths, angles
\* and force densities are computed and both diagrams written
fuf_written(frm, frc, oedges, xy) ==
    With(C_dot(edges_ij(frm), xy), LAMBDA uv :
    With(C_dot(oedges, frc.xy), LAMBDA fuv :
    With(Tuple([e \in 1..Len(uv) |-> angle_vectors_xy(uv[e], fuv[e])], Len(uv)), LAMBDA a :
    With(normrow(uv), LAMBDA l :
    With(normrow(fuv), LAMBDA fl :
    With(Tuple([e \in 1..Len(uv) |-> NumDiv(fl[e], l[e])], Len(uv)), LAMBDA q :
    With(write_force_edges(frc, oedges, a, fl, 1), LAMBDA wf :
        [err |-> wf.err, form |-> write_form(frm, xy, a, l, fl, q), force |-> wf.force])))))))

\* lines 331-332: C.dot(xy) and _C.dot(_xy) raise ValueError unless C and _C
\* have a column per vertex
fuf_shapes_differ(frm, frc, oedges) ==
    C_ncols(oedges) # Len(frc.keys) \/ C_ncols(edges_ij(frm)) # Len(frm.keys)

\* form_update_from_force(form, force, kmax): both diagrams after the call
\* and what it raised
form_update_from_force_of(frm, frc, kmax, to) ==
    LET oe    == ordered_edges(frc, frm)
        xy    == update_form_from_force(frm, frm.xy, fuf_free(frm), fuf_leaves(frm), kmax, to)
    IN  IF oe.err # "none" THEN [err |-> oe.err, form |-> frm, force |-> frc]
        ELSE IF fuf_shapes_differ(frm, frc, oe.edges)
        THEN [err |-> "ValueError", form |-> frm, force |-> frc]
        ELSE fuf_written(frm, frc, oe.edges, xy)

\* the index of the first vertex
known_first(frc) == 0

\* force_update_from_form, lines 396-397: the index of the anchor
force_known(frc) == k_i(frc)[frc.anchor]

\* compas.numerical.spsolve_with_known(A, b, x, known): the known rows of x
\* are kept and the others solved for.  The solution is not computed here:
\* to gives it.
spsolve_with_known(x, known, to) ==
    Tuple([i \in 1..Len(x) |-> IF (i - 1) = known THEN x[i] ELSE to[i]], Len(x))

\* the vertices are moved and the edges measured again
force_update_from_form_measured(frc, frm, to) ==
    With([frc EXCEPT !.xy = spsolve_with_known(frc.xy, force_known(frc), to)], LAMBDA moved :
        [err |-> "none",
         force |-> [moved EXCEPT !.eattr =
                       Tuple([e \in 1..Len(frc.edges) |->
                                 [frc.eattr[e] EXCEPT !.l =
                                     Root(Norm2(<<At(moved, frc.edges[e][2])[1]
                                                     - At(moved, frc.edges[e][1])[1],
                                                  At(moved, frc.edges[e][2])[2]
                                                     - At(moved, frc.edges[e][1])[2]>>))]],
                             Len(frc.edges))]])

\* force_update_from_form(force, form): the force diagram after the call and
\* what it raised
force_update_from_form_of(frc, frm, to) ==
    LET oe == ordered_edges(frc, frm)
    IN  IF C_ncols(edges_ij(frm)) # Len(frm.keys) THEN [err |-> "ValueError", force |-> frc]
        ELSE IF oe.err # "none" THEN [err |-> oe.err, force |-> frc]
        ELSE IF C_ncols(oe.edges) # Len(frc.keys) THEN [err |-> "IndexError", force |-> frc]
        ELSE [err |-> "none",
              force |-> [frc EXCEPT !.xy = spsolve_with_known(frc.xy, force_known(frc), to)]]

\* force densities a solve may return
QSamples == {IntNum(1), IntNum(-2)}

\* form_update_q_from_qind(form)
form_update_q_from_qind ==
    /\ calls < MaxCalls
    /\ \E qd \in [Range(updq_dep(form)) -> QSamples], fails \in BOOLEAN :
          LET r == form_update_q_from_qind_of(form, qd, fails)
          IN  /\ form' = r.form
              /\ ret' = [op |-> "form_update_q_from_qind", err |-> r.err,
                         form0 |-> form, force0 |-> force]
    /\ calls' = calls + 1
    /\ UNCHANGED <<force, identified, counted, constraints, added, cret, run>>

\* ------------------------------------------------------------------------
\* the diagrams the operations are run on
\* ------------------------------------------------------------------------

\* vertex positions: each layout gives up to four points, by vertex position.
\* The first is in general position; in the second a vertex sits at the
\* origin; the third is collinear; in the fourth two vertices coincide.
Layouts ==
    { << <<3, 1>>, <<1, 1>>, <<1, 3>>, <<0, 0>> >>,
      << <<2, 0>>, <<0, 0>>, <<0, 2>>, <<2, 2>> >>,
      << <<3, 1>>, <<2, 1>>, <<1, 1>>, <<0, 1>> >>,
      << <<1, 1>>, <<1, 1>>, <<1, 3>>, <<0, 0>> >> }

\* the attributes a new edge has: q = 1, f = l = a = 0 (cos a = 1)
DefaultEdge ==
    [q |-> IntNum(1), f |-> IntNum(0), l |-> IntNum(0), a |-> IntNum(1),
     is_edge |-> TRUE, is_ind |-> FALSE]

\* a node with three bars: centre 0 and leaves 2, 5, 3; its reciprocal is the
\* triangle 11, 12, 13
StarKeys == <<2, 0, 5, 3>>

StarEdges == << <<0, 2>>, <<5, 0>>, <<0, 3>> >>

StarDual == << <<11, 12>>, <<12, 13>>, <<13, 11>> >>

\* a triangle of bars
TriKeys == <<1, 4, 6>>

TriEdges == << <<1, 4>>, <<4, 6>>, <<6, 1>> >>

TriDual == << <<21, 22>>, <<21, 22>>, <<21, 22>> >>

\* two bars in a row
PathKeys == <<8, 6, 1>>

PathEdges == << <<8, 6>>, <<1, 6>> >>

PathDual == << <<31, 32>>, <<31, 32>> >>

MkForm(keys, xy, fixed, edges, dual, eattr) ==
    [keys |-> keys,
     xy |-> Tuple(xy, Len(keys)),
     is_fixed |-> Tuple([i \in 1..Len(keys) |-> keys[i] \in fixed], Len(keys)),
     edges |-> edges, dual |-> dual, eattr |-> eattr]

\* the force diagram reciprocal to the star: its edges are the duals of the
\* star's edges, one of them stored the other way round
StarForce(xy) ==
    [keys |-> <<11, 12, 13>>,
     xy |-> Tuple(xy, 3),
     anchor |-> 12,
     edges |-> << <<11, 12>>, <<13, 12>>, <<13, 11>> >>,
     eattr |-> Tuple([e \in 1..3 |-> [a |-> IntNum(1), l |-> IntNum(0)]], 3)]

\* every form diagram of the three shapes: all layouts and all fixed/free
\* partitions
DofForms ==
    {MkForm(StarKeys, xy, fx, StarEdges, StarDual, [e \in 1..3 |-> DefaultEdge]) :
        xy \in Layouts, fx \in SUBSET Range(StarKeys)}
    \cup {MkForm(TriKeys, xy, fx, TriEdges, TriDual, [e \in 1..3 |-> DefaultEdge]) :
        xy \in Layouts, fx \in SUBSET Range(TriKeys)}
    \cup {MkForm(PathKeys, xy, fx, PathEdges, PathDual, [e \in 1..2 |-> DefaultEdge]) :
        xy \in Layouts, fx \in SUBSET Range(PathKeys)}

\* a force diagram that is not the reciprocal of the star: its edge
\* (13, 14) corresponds to no edge of the star
StaleForce(xy) ==
    [keys |-> <<14, 11, 12, 13>>,
     xy |-> Tuple(xy, 4),
     anchor |-> 11,
     edges |-> << <<11, 12>>, <<13, 12>>, <<13, 14>> >>,
     eattr |-> Tuple([e \in 1..3 |-> [a |-> IntNum(1), l |-> IntNum(0)]], 3)]

\* the reciprocal of the star with one more vertex, which no edge reaches
LooseForce(xy) ==
    [keys |-> <<11, 12, 13, 14>>,
     xy |-> Tuple(xy, 4),
     anchor |-> 12,
     edges |-> << <<11, 12>>, <<13, 12>>, <<13, 11>> >>,
     eattr |-> Tuple([e \in 1..3 |-> [a |-> IntNum(1), l |-> IntNum(0)]], 3)]

\* edge attributes of the star before an update: every edge independent; or
\* the third edge independent with given force densities; or no edge
\* independent and the second edge not structural
EdgePatterns ==
    { [e \in 1..3 |-> [DefaultEdge EXCEPT !.is_ind = TRUE]],
      [e \in 1..3 |-> [DefaultEdge EXCEPT !.is_ind = (e = 3),
                                          !.q = IntNum(IF e = 2 THEN -1 ELSE 2)]],
      [e \in 1..3 |-> [DefaultEdge EXCEPT !.is_edge = (e # 2)]] }

\* every edge independent, with force densities 1, or 2, -1 and 3
AllIndependent ==
    { [e \in 1..3 |-> [DefaultEdge EXCEPT !.is_ind = TRUE]],
      [e \in 1..3 |-> [DefaultEdge EXCEPT !.is_ind = TRUE,
                                          !.q = IntNum(IF e = 2 THEN -1 ELSE e + 1)]] }

\* the star with nothing fixed, its centre fixed, a leaf fixed, two leaves
\* fixed; the triangle with one vertex fixed and every edge independent
UpdForms ==
    {MkForm(StarKeys, xy, fx, StarEdges, StarDual, ea) :
        xy \in Layouts, fx \in {{}, {0}, {2}, {2, 5}}, ea \in EdgePatterns}
    \cup {MkForm(TriKeys, xy, {4}, TriEdges, TriDual, ea) :
        xy \in Layouts, ea \in AllIndependent}

UpdForces ==
    {StarForce(xy) : xy \in {l \in Layouts : l[1] = <<2, 0>>}}
    \cup {StaleForce(xy) : xy \in {l \in Layouts : l[1] = <<2, 0>>}}
    \cup {LooseForce(xy) : xy \in {l \in Layouts : l[1] = <<2, 0>>}}

\* no form_update_from_force call in progress
Idle == [pc |-> "idle"]

NoCall == [op |-> "none", err |-> "none", form0 |-> form, force0 |-> force]

\* the constraint collection on its own
InitCons ==
    /\ InitCollection
    /\ form = MkForm(StarKeys, CHOOSE xy \in Layouts : xy[1] = <<3, 1>> /\ xy[2] = <<1, 1>>,
                     {}, StarEdges, StarDual, [e \in 1..3 |-> DefaultEdge])
    /\ force = StarForce(CHOOSE xy \in Layouts : xy[1] = <<2, 0>>)
    /\ ret = NoCall
    /\ identified = [has |-> FALSE]
    /\ counted = [has |-> FALSE]
    /\ calls = 0
    /\ run = Idle

NextCons ==
    \/ \E c \in Constraint : add_constraint(c)
    \/ compute_constraints

SpecCons == InitCons /\ [][NextCons]_vars

\* the analysis of any form diagram
InitDof ==
    /\ InitCollection
    /\ form \in DofForms
    /\ force = StarForce(CHOOSE xy \in Layouts : xy[1] = <<2, 0>>)
    /\ ret = NoCall
    /\ identified = [has |-> FALSE]
    /\ counted = [has |-> FALSE]
    /\ calls = 0
    /\ run = Idle

NextDof ==
    \/ form_identify_dof
    \/ form_count_dof

SpecDof == InitDof /\ [][NextDof]_vars

\* form_update_from_force(form, force, kmax)
form_update_from_force ==
    /\ calls < MaxCalls
    /\ \E kmax \in 0..MaxKmax, to \in Layouts :
          LET r == form_update_from_force_of(form, force, kmax, to)
          IN  /\ form' = r.form
              /\ force' = r.force
              /\ ret' = [op |-> "form_update_from_force", err |-> r.err,
                         form0 |-> form, force0 |-> force]
    /\ calls' = calls + 1
    /\ UNCHANGED <<identified, counted, constraints, added, cret, run>>

\* force_update_from_form(force, form)
force_update_from_form ==
    /\ calls < MaxCalls
    /\ \E to \in Layouts :
          LET r == force_update_from_form_of(force, form, to)
          IN  /\ force' = r.force
              /\ ret' = [op |-> "force_update_from_form", err |-> r.err,
                         form0 |-> form, force0 |-> force]
    /\ calls' = calls + 1
    /\ UNCHANGED <<form, identified, counted, constraints, added, cret, run>>

\* the updates of a pair of diagrams
Init ==
    /\ InitCollection
    /\ form \in UpdForms
    /\ force \in UpdForces
    /\ ret = NoCall
    /\ identified = [has |-> FALSE]
    /\ counted = [has |-> FALSE]
    /\ calls = 0
    /\ run = Idle

Next ==
    \/ form_update_q_from_qind
    \/ form_update_from_force
    \/ force_update_from_form

Spec == Init /\ [][Next]_vars

\* ------------------------------------------------------------------------
\* form_update_from_force, step by step
\* ------------------------------------------------------------------------

\* the keyword arguments of a call: none, or kmax
KmaxArgs == {<<>>} \cup {<<n>> : n \in 0..MaxKmax}

\* line 257: kmax as the function has it
kmax_of(args) == IF args = <<>> THEN DefaultKmax ELSE args[1]

fuf_kmax_more(kmax) == kmax + 1

\* line 327: the kmax handed to the core
fuf_kmax(kmax) == kmax

\* the core's loop goes on while sweeps remain
more_sweeps(k, kmax) == k < kmax

\* one sweep of the core over the free vertices.  Where it puts them is not
\* computed here: to gives it.
sweep(xy, free, to) ==
    Tuple([i \in 1..Len(xy) |-> IF (i - 1) \in Range(free) THEN to[i] ELSE xy[i]], Len(xy))

\* the call starts: lines 298-321.  A lookup error in ordered_edges ends it.
fuf_begin ==
    /\ run.pc = "idle"
    /\ \E args \in KmaxArgs :
          LET oe == ordered_edges(force, form)
          IN  IF oe.err # "none"
              THEN /\ run' = [pc |-> "done", asked |-> kmax_of(args), kmax |-> 0, k |-> 0,
                              moved |-> FALSE, xy |-> form.xy, writes |-> 0]
                   /\ ret' = [op |-> "form_update_from_force", err |-> oe.err,
                              form0 |-> form, force0 |-> force]
              ELSE /\ run' = [pc |-> "sweep", asked |-> kmax_of(args),
                              kmax |-> fuf_kmax(kmax_of(args)), k |-> 0,
                              moved |-> FALSE, xy |-> form.xy, writes |-> 0]
                   /\ ret' = [op |-> "form_update_from_force", err |-> "running",
                              form0 |-> form, force0 |-> force]
    /\ calls' = calls + 1
    /\ UNCHANGED <<form, force, identified, counted, constraints, added, cret>>

\* one more sweep of the core
fuf_sweep ==
    /\ run.pc = "sweep"
    /\ more_sweeps(run.k, run.kmax)
    /\ \E to \in Layouts, free \in {fuf_free(form)} :
          \E xy \in {sweep(run.xy, free, to)} :
             run' = [run EXCEPT !.k = @ + 1, !.xy = xy, !.moved = (xy # run.xy)]
    /\ UNCHANGED <<form, force, ret, calls, identified, counted, constraints, added, cret>>

\* the sweeps end, after kmax of them or after one that moved nothing, and
\* the core puts the leaves back
fuf_reconnect ==
    /\ run.pc = "sweep"
    /\ ~more_sweeps(run.k, run.kmax) \/ (run.k > 0 /\ ~run.moved)
    /\ \E leaves \in {fuf_leaves(form)} :
          run' = [run EXCEPT !.pc = "update",
                             !.xy = reconnect_leaves(form, form.xy, run.xy, leaves, 1)]
    /\ UNCHANGED <<form, force, ret, calls, identified, counted, constraints, added, cret>>

\* lines 331-360: the diagrams are written, unless the shapes differ
fuf_update ==
    /\ run.pc = "update"
    /\ \E oe \in {ordered_edges(force, form)} :
          IF fuf_shapes_differ(form, force, oe.edges)
          THEN /\ run' = [run EXCEPT !.pc = "done"]
               /\ ret' = [ret EXCEPT !.err = "ValueError"]
               /\ UNCHANGED <<form, force>>
          ELSE \E r \in {fuf_written(form, force, oe.edges, run.xy)} :
                  /\ run' = [run EXCEPT !.pc = "done", !.writes = @ + 1]
                  /\ ret' = [ret EXCEPT !.err = r.err]
                  /\ form' = r.form
                  /\ force' = r.force
    /\ UNCHANGED <<calls, identified, counted, constraints, added, cret>>

\* the star before any update, with nothing fixed, its centre fixed, a leaf
\* fixed
SweepForms ==
    {MkForm(StarKeys, xy, fx, StarEdges, StarDual, [e \in 1..3 |-> DefaultEdge]) :
        xy \in Layouts, fx \in {{}, {0}, {2}}}

InitSweep ==
    /\ InitCollection
    /\ form \in SweepForms
    /\ force \in UpdForces
    /\ ret = NoCall
    /\ identified = [has |-> FALSE]
    /\ counted = [has |-> FALSE]
    /\ calls = 0
    /\ run = Idle

NextSweep ==
    \/ fuf_begin
    \/ fuf_sweep
    \/ fuf_reconnect
    \/ fuf_update

\* the call runs in one thread, which takes its next step when it has one
SpecSweep == InitSweep /\ [][NextSweep]_vars /\ WF_vars(NextSweep)

\* ------------------------------------------------------------------------
\* graphstatics.py: the proxies, which take and return diagrams as data
\* ------------------------------------------------------------------------

\* FormDiagram.to_data(): the attributes of every vertex by key and of every
\* edge by its pair of keys, with the order of the vertices and the edges
form_to_data(frm) ==
    [vertex |-> [key \in Range(frm.keys) |->
                    LET p == k_i(frm)[key] + 1
                    IN  [x |-> frm.xy[p][1], y |-> frm.xy[p][2], is_fixed |-> frm.is_fixed[p]]],
     edge   |-> [uv \in Range(frm.edges) |->
                    frm.eattr[CHOOSE e \in 1..Len(frm.edges) : frm.edges[e] = uv]],
     vertices |-> frm.keys, edges |-> frm.edges, dual |-> frm.dual]

\* FormDiagram.from_data(data): a new diagram with the attributes of data
form_from_data(data) ==
    [keys |-> data.vertices,
     xy |-> Tuple([p \in 1..Len(data.vertices) |->
                     <<data.vertex[data.vertices[p]].x, data.vertex[data.vertices[p]].y>>],
                  Len(data.vertices)),
     is_fixed |-> Tuple([p \in 1..Len(data.vertices) |-> data.vertex[data.vertices[p]].is_fixed],
                        Len(data.vertices)),
     edges |-> data.edges, dual |-> data.dual,
     eattr |-> Tuple([e \in 1..Len(data.edges) |-> data.edge[data.edges[e]]], Len(data.edges))]

\* ForceDiagram.to_data()
force_to_data(frc) ==
    [vertex |-> [key \in Range(frc.keys) |->
                    LET p == k_i(frc)[key] + 1
                    IN  [x |-> frc.xy[p][1], y |-> frc.xy[p][2]]],
     edge   |-> [uv \in Range(frc.edges) |->
                    frc.eattr[CHOOSE e \in 1..Len(frc.edges) : frc.edges[e] = uv]],
     vertices |-> frc.keys, edges |-> frc.edges, anchor |-> frc.anchor]

\* ForceDiagram.from_data(data)
force_from_data(data) ==
    [keys |-> data.vertices,
     xy |-> Tuple([p \in 1..Len(data.vertices) |->
                     <<data.vertex[data.vertices[p]].x, data.vertex[data.vertices[p]].y>>],
                  Len(data.vertices)),
     anchor |-> data.anchor,
     edges |-> data.edges,
     eattr |-> Tuple([e \in 1..Len(data.edges) |-> data.edge[data.edges[e]]], Len(data.edges))]

\* form_update_q_from_qind_proxy(formdata), lines 75-78: what it raised and
\* the data it returned
form_update_q_from_qind_proxy_of(formdata, qd, fails) ==
    LET r == form_update_q_from_qind_of(form_from_data(formdata), qd, fails)
    IN  IF r.err # "none" THEN [err |-> r.err]
        ELSE [err |-> "none", data |-> form_to_data(r.form)]

\* form_update_from_force_proxy(formdata, forcedata, kmax), lines 81-85.
\* Line 82 is form = FormDiagram.from_data(form): form is assigned in the
\* function, so it is a local name, and it is read before it has a value.
form_update_from_force_proxy_of(formdata, forcedata, kmax, to) ==
    [err |-> "UnboundLocalError"]

\* force_update_from_form_proxy(forcedata, formdata), lines 88-92
force_update_from_form_proxy_of(forcedata, formdata, to) ==
    LET r == force_update_from_form_of(force_from_data(forcedata), form_from_data(formdata), to)
    IN  IF r.err # "none" THEN [err |-> r.err]
        ELSE [err |-> "none", data |-> force_to_data(r.force)]

\* form_update_q_from_qind_proxy(form.to_data())
form_update_q_from_qind_proxy ==
    /\ calls < MaxCalls
    /\ \E qd \in [Range(updq_dep(form)) -> QSamples], fails \in BOOLEAN :
          ret' = [op |-> "form_update_q_from_qind_proxy", form0 |-> form, force0 |-> force,
                  args |-> <<qd, fails>>,
                  out |-> form_update_q_from_qind_proxy_of(form_to_data(form), qd, fails)]
    /\ calls' = calls + 1
    /\ UNCHANGED <<form, force, identified, counted, constraints, added, cret, run>>

\* form_update_from_force_proxy(form.to_data(), force.to_data(), kmax)
form_update_from_force_proxy ==
    /\ calls < MaxCalls
    /\ \E kmax \in 0..MaxKmax, to \in Layouts :
          ret' = [op |-> "form_update_from_force_proxy", form0 |-> form, force0 |-> force,
                  args |-> <<kmax, to>>,
                  out |-> form_update_from_force_proxy_of(form_to_data(form),
                                                          force_to_data(force), kmax, to)]
    /\ calls' = calls + 1
    /\ UNCHANGED <<form, force, identified, counted, constraints, added, cret, run>>

\* force_update_from_form_proxy(force.to_data(), form.to_data())
force_update_from_form_proxy ==
    /\ calls < MaxCalls
    /\ \E to \in Layouts :
          ret' = [op |-> "force_update_from_form_proxy", form0 |-> form, force0 |-> force,
                  args |-> <<to>>,
                  out |-> force_update_from_form_proxy_of(force_to_data(force),
                                                          form_to_data(form), to)]
    /\ calls' = calls + 1
    /\ UNCHANGED <<form, force, identified, counted, constraints, added, cret, run>>

\* the proxies called on a pair of diagrams
NextProxy ==
    \/ form_update_q_from_qind_proxy
    \/ form_update_from_force_proxy
    \/ force_update_from_form_proxy

SpecProxy == Init /\ [][NextProxy]_vars

\* ------------------------------------------------------------------------
\* claims about the constraint collection (checked under SpecCons)
\* ------------------------------------------------------------------------

\* the last compute_constraints call, if there was one
Computed == cret.out.status # "none"

OneForm(cs) == \A i, j \in 1..Len(cs) : cs[i].form = cs[j].form

OnVertices(cs) == \A i \in 1..Len(cs) : cs[i].vertex \in Range(ConFormKeys(cs[i].form))

DistinctVertices(cs) == \A i, j \in 1..Len(cs) : i # j => cs[i].vertex # cs[j].vertex

MixedCounts(cs) ==
    \E i, j \in 1..Len(cs) : Len(ConFormKeys(cs[i].form)) # Len(ConFormKeys(cs[j].form))

\* the place (from 1) of key k among the vertices of form f
Place(f, k) == CHOOSE p \in 1..Len(ConFormKeys(f)) : ConFormKeys(f)[p] = k

\* the column (from 1) that must hold the 1 of constraint c's row
ExpectedColumn(c) ==
    IF c.kind = "HorizontalFix"
    THEN Place(c.form, c.vertex)
    ELSE Len(ConFormKeys(c.form)) + Place(c.form, c.vertex)

\* C1: for N >= 1 HorizontalFix/VerticalFix constraints on vertices of one
\* form diagram with V vertices, compute_constraints returns a Jacobian of
\* N rows and 2*V columns, every row one-hot at column index(vertex) for a
\* HorizontalFix and V + index(vertex) for a VerticalFix, and a residual of
\* N zeros.  (The vertices need not even be distinct.  N = 0 names no form
\* diagram, so no V: that call is the subject of C17.)
C1_OneHotJacobian ==
    LET cs == cret.cs
        out == cret.out
    IN  (Computed /\ Len(cs) >= 1 /\ OneForm(cs) /\ OnVertices(cs)) =>
            /\ out.status = "ok"
            /\ Len(out.jac) = Len(cs)
            /\ Len(out.res) = Len(cs)
            /\ \A i \in 1..Len(cs) :
                /\ Len(out.jac[i]) = 2 * Len(ConFormKeys(cs[1].form))
                /\ \A col \in 1..Len(out.jac[i]) :
                      out.jac[i][col] = IF col = ExpectedColumn(cs[i]) THEN 1 ELSE 0
                /\ out.res[i] = 0

\* a call on three constraints of both kinds on the three distinct vertices
\* of one form diagram
C1_Witness ==
    /\ Computed
    /\ Len(cret.cs) = 3
    /\ OneForm(cret.cs) /\ OnVertices(cret.cs) /\ DistinctVertices(cret.cs)
    /\ \E i, j \in 1..3 : cret.cs[i].kind = "HorizontalFix" /\ cret.cs[j].kind = "VerticalFix"
    /\ cret.out.status = "ok"

\* C2: compute_constraints stacks rows and residuals in insertion order: row
\* i and residual i are those the i-th constraint added returns; and the
\* collection is at all times exactly the constraints added, in order, so
\* compute_constraints does not change it.
C2_InsertionOrder ==
    /\ constraints = added
    /\ (cret.out.status = "ok") =>
          /\ Len(cret.cs) <= Len(added)
          /\ Len(cret.out.jac) = Len(cret.cs)
          /\ Len(cret.out.res) = Len(cret.cs)
          /\ \A i \in 1..Len(cret.cs) :
                /\ cret.cs[i] = added[i]
                /\ cret.out.jac[i] = compute_constraint(added[i]).row
                /\ cret.out.res[i] = compute_constraint(added[i]).r

\* a successful call on a collection whose first and last rows differ
C2_Witness ==
    /\ cret.out.status = "ok"
    /\ Len(cret.cs) >= 2
    /\ cret.out.jac[1] # cret.out.jac[Len(cret.cs)]
    /\ constraints = cret.cs

\* C3 as stated: constraints of form diagrams with different vertex counts
\* make compute_constraints fail with InconsistentConstraintError.
C3_InconsistentConstraintError ==
    (Computed /\ MixedCounts(cret.cs)) => cret.out.status = "InconsistentConstraintError"

\* C3 amended: such a collection makes compute_constraints fail, and nothing
\* is returned; the error is the ValueError np.vstack raises on the first row
\* whose width is not that of the first constraint, unless an earlier
\* constraint's vertex lookup already raised KeyError.
C3_FailsWithValueError ==
    (Computed /\ MixedCounts(cret.cs)) =>
        /\ cret.out.status \in {"ValueError", "KeyError"}
        /\ OnVertices(cret.cs) => cret.out.status = "ValueError"

\* a call on constraints of both form diagrams, every vertex one of its form
C3_Witness ==
    /\ Computed
    /\ MixedCounts(cret.cs)
    /\ OnVertices(cret.cs)
    /\ cret.out.status = "ValueError"

\* ------------------------------------------------------------------------
\* claims about the analysis of the form diagram (checked under SpecDof)
\* ------------------------------------------------------------------------

\* the equilibrium matrix of a form diagram, from its definition: a row for
\* every coordinate of every vertex that is not fixed (the x rows, then the y
\* rows), a column for every edge; the entry is the signed incidence of the
\* vertex in the edge times the edge's coordinate difference
EquilibriumOf(frm) ==
    LET fr == Where(frm.keys, LAMBDA p : ~frm.is_fixed[p])
        nf == Len(fr)
        Inc(e, p) == (IF frm.edges[e][2] = frm.keys[p] THEN 1 ELSE 0)
                     - (IF frm.edges[e][1] = frm.keys[p] THEN 1 ELSE 0)
        Pos(key) == frm.xy[CHOOSE p \in 1..Len(frm.keys) : frm.keys[p] = key]
        D(e, c) == Pos(frm.edges[e][2])[c] - Pos(frm.edges[e][1])[c]
    IN  Matrix(2 * nf, Len(frm.edges),
               LAMBDA r, e : IF r <= nf THEN Inc(e, fr[r]) * D(e, 1)
                                        ELSE Inc(e, fr[r - nf]) * D(e, 2))

\* the columns (from 0) of M that are linear combinations of the columns to
\* their left, ascending: the non-pivot columns of the reduced row-echelon
\* form, in which the leftmost column of a dependent set gets the pivot
DependentColumns(M) ==
    Sorted({j - 1 : j \in {jj \in 1..M.nc :
                rank(Columns(M, [c \in 1..jj |-> c]))
                    = rank(Columns(M, [c \in 1..(jj - 1) |-> c]))}})

\* the edges, as pairs of vertex indices, at the columns cols (from 0);
\* a column past the edges is no edge
EdgesAt(frm, cols) ==
    [i \in 1..Len(cols) |->
        IF cols[i] < Len(frm.edges)
        THEN <<CHOOSE p \in 0..(Len(frm.keys) - 1) : frm.keys[p + 1] = frm.edges[cols[i] + 1][1],
               CHOOSE p \in 0..(Len(frm.keys) - 1) : frm.keys[p + 1] = frm.edges[cols[i] + 1][2]>>
        ELSE <<-1, -1>>]

\* C4: form_count_dof returns the pair (k, m) that form_identify_dof returns
\* first on the same diagram, and neither call changes a diagram.
C4_CountAgreesWithIdentify ==
    /\ (identified.has /\ counted.has /\ identified.on = counted.on) =>
          /\ identified.out.err = "none"
          /\ counted.out.k = identified.out.k
          /\ counted.out.m = identified.out.m
    /\ (ret.op \in {"form_identify_dof", "form_count_dof"}) =>
          /\ form = ret.form0
          /\ force = ret.force0

\* both were called on one diagram that has states of self-stress and
\* mechanisms
C4_Witness ==
    /\ identified.has /\ counted.has /\ identified.on = counted.on
    /\ ret.op = "form_count_dof"
    /\ identified.out.k > 0 /\ identified.out.m > 0
    /\ \E p \in 1..Len(form.keys) : form.is_fixed[p]

\* C5: the k and m of form_identify_dof and of form_count_dof are >= 0,
\* k = ncols(E) - rank(E) and m = nrows(E) - rank(E) for the equilibrium
\* matrix E of the diagram, whatever the fixed/free partition.
C5_RankNullity ==
    /\ identified.has =>
          LET E == EquilibriumOf(identified.on)
          IN  /\ identified.out.err = "none"
              /\ identified.out.k >= 0 /\ identified.out.m >= 0
              /\ identified.out.k = E.nc - rank(E)
              /\ identified.out.m = E.nr - rank(E)
    /\ counted.has =>
          LET E == EquilibriumOf(counted.on)
          IN  /\ counted.out.k >= 0 /\ counted.out.m >= 0
              /\ counted.out.k = E.nc - rank(E)
              /\ counted.out.m = E.nr - rank(E)

\* both were called on a diagram with some vertices fixed and some free,
\* whose matrix is rank deficient and not square
C5_Witness ==
    /\ identified.has /\ counted.has /\ identified.on = counted.on
    /\ \E p, r \in 1..Len(form.keys) : form.is_fixed[p] /\ ~form.is_fixed[r]
    /\ identified.out.k # identified.out.m
    /\ identified.out.k > 0 /\ identified.out.m > 0

Updates == {"form_update_q_from_qind", "form_update_from_force", "force_update_from_form"}

\* the vector from the first to the second vertex of the pair uv of keys
EdgeVec(d, uv) ==
    LET P(key) == d.xy[CHOOSE p \in 1..Len(d.keys) : d.keys[p] = key]
    IN  <<P(uv[2])[1] - P(uv[1])[1], P(uv[2])[2] - P(uv[1])[2]>>

Dot(u, v) == u[1] * v[1] + u[2] * v[2]

\* the edge of the force diagram that corresponds to edge e of the form
\* diagram
Reciprocal(frm, frc, e) ==
    frc.edges[CHOOSE n \in 1..Len(frc.edges) :
                 frc.edges[n] \in {frm.dual[e], <<frm.dual[e][2], frm.dual[e][1]>>}]

\* C7: after form_update_from_force, an edge of the form diagram at less than
\* 90 degrees to its reciprocal (a positive dot product) has f = the length
\* of the reciprocal and q = that length / its own length, both positive;
\* any other edge, one at exactly 90 degrees included, has both negated.
C7_SignRule ==
    (ret.op = "form_update_from_force" /\ ret.err = "none") =>
        \A e \in 1..Len(form.edges) :
            LET u  == EdgeVec(form, form.edges[e])
                v  == EdgeVec(force, Reciprocal(form, force, e))
                fl == Root(Norm2(v))
                ql == NumDiv(fl, Root(Norm2(u)))
            IN  IF Dot(u, v) > 0
                THEN /\ form.eattr[e].f = fl /\ NumPositive(form.eattr[e].f)
                     /\ form.eattr[e].q = ql /\ NumPositive(form.eattr[e].q)
                ELSE /\ form.eattr[e].f = NumNeg(fl)
                     /\ form.eattr[e].q = NumNeg(ql)

\* the update moved the diagram; one edge is at exactly 90 degrees to its
\* reciprocal and has negative f and q, another is at less than 90 degrees
C7_Witness ==
    /\ ret.op = "form_update_from_force" /\ ret.err = "none"
    /\ form.xy # ret.form0.xy
    /\ \E e \in 1..Len(form.edges) :
          LET u == EdgeVec(form, form.edges[e])
              v == EdgeVec(force, Reciprocal(form, force, e))
          IN  /\ Dot(u, v) = 0 /\ Norm2(u) > 0 /\ Norm2(v) > 0
              /\ form.eattr[e].f.s = -1 /\ form.eattr[e].q.s = -1
    /\ \E e \in 1..Len(form.edges) :
          Dot(EdgeVec(form, form.edges[e]), EdgeVec(force, Reciprocal(form, force, e))) > 0

\* C8 as stated: form_update_from_force leaves every vertex of the form
\* diagram that has is_fixed set where it was.
C8_FixedVerticesStay ==
    ret.op = "form_update_from_force" =>
        \A p \in 1..Len(form.keys) :
            ret.form0.is_fixed[p] => form.xy[p] = ret.form0.xy[p]

\* C9: force_update_from_form leaves the anchor of the force diagram where
\* it was.
C9_AnchorHeld ==
    ret.op = "force_update_from_form" =>
        \A p \in 1..Len(force.keys) :
            force.keys[p] = force.anchor => force.xy[p] = ret.force0.xy[p]

\* the update moved every vertex of the force diagram but the anchor, which
\* is not the first vertex
C9_Witness ==
    /\ ret.op = "force_update_from_form" /\ ret.err = "none"
    /\ force.keys[1] # force.anchor
    /\ \A p \in 1..Len(force.keys) :
          force.keys[p] # force.anchor => force.xy[p] # ret.force0.xy[p]

C11_AllIndependent ==
    (ret.op = "form_update_q_from_qind"
        /\ \A e \in 1..Len(ret.form0.edges) : ret.form0.eattr[e].is_ind) =>
        /\ ret.err = "none"
        /\ \A e \in 1..Len(form.edges) :
              /\ form.eattr[e].q = ret.form0.eattr[e].q
              /\ form.eattr[e].is_edge =>
                    /\ form.eattr[e].l = Root(Norm2(EdgeVec(form, form.edges[e])))
                    /\ form.eattr[e].f = NumMul(ret.form0.eattr[e].q, form.eattr[e].l)
                    /\ ret.form0.eattr[e].q = IntNum(1) => form.eattr[e].f = form.eattr[e].l

\* the scenario: a triangle with one fixed vertex at (0, 0), every edge
\* independent with q = 1 and of nonzero length, after the update
C11_Witness ==
    /\ ret.op = "form_update_q_from_qind" /\ ret.err = "none"
    /\ Len(form.keys) = 3 /\ Len(form.edges) = 3
    /\ \E p \in 1..3 : form.is_fixed[p] /\ form.xy[p] = <<0, 0>>
    /\ \A e \in 1..3 :
          /\ ret.form0.eattr[e].is_ind /\ ret.form0.eattr[e].q = IntNum(1)
          /\ form.eattr[e].f = form.eattr[e].l /\ NumPositive(form.eattr[e].f)

\* ------------------------------------------------------------------------
\* claims about the proxies (checked under SpecProxy)
\* ------------------------------------------------------------------------

\* form_update_q_from_qind_proxy and force_update_from_form_proxy return
\* the data of the diagram their entry point leaves, and fail when it fails
OtherProxiesReturn ==
    /\ ret.op = "form_update_q_from_qind_proxy" =>
          LET r == form_update_q_from_qind_of(ret.form0, ret.args[1], ret.args[2])
          IN  /\ ret.out.err = r.err
              /\ r.err = "none" => form_from_data(ret.out.data) = r.form
    /\ ret.op = "force_update_from_form_proxy" =>
          LET r == force_update_from_form_of(ret.force0, ret.form0, ret.args[1])
          IN  /\ ret.out.err = r.err
              /\ r.err = "none" => force_from_data(ret.out.data) = r.force

\* C12 as stated: on diagrams that form_update_from_force itself accepts,
\* form_update_from_force_proxy does not fail and returns the data of the
\* form diagram that form_update_from_force leaves.
C12_ProxyReturnsUpdatedForm ==
    ret.op = "form_update_from_force_proxy" =>
        LET r == form_update_from_force_of(ret.form0, ret.force0, ret.args[1], ret.args[2])
        IN  r.err = "none" =>
                /\ ret.out.err = "none"
                /\ form_from_data(ret.out.data) = r.form

\* ------------------------------------------------------------------------
\* claims about the steps of form_update_from_force (checked under SpecSweep)
\* ------------------------------------------------------------------------

\* the sweeps never exceed the kmax of the call (100 when none is given),
\* the diagrams are written at most once, and a call that has ended has
\* written them once if it returned and not at all if it failed
SweepsBounded ==
    run.pc # "idle" =>
        /\ run.k <= run.asked
        /\ run.writes <= 1
        /\ run.pc = "done" => run.writes = (IF ret.err = "none" THEN 1 ELSE 0)
        /\ run.pc # "done" => run.writes = 0

\* C13: form_update_from_force always ends, after at most kmax sweeps (100
\* by default), fewer when a sweep moves nothing, and then writes the
\* attributes exactly once.
C13_Terminates == []SweepsBounded /\ <>(run.pc = "done")

\* a call without kmax has ended after 100 sweeps and has written the
\* diagrams once, with the vertices moved
C13_Witness ==
    /\ run.pc = "done" /\ ret.err = "none"
    /\ run.k = DefaultKmax /\ run.asked = DefaultKmax /\ run.writes = 1
    /\ form.xy # ret.form0.xy

\* ------------------------------------------------------------------------
\* claims: the equilibrium matrix of the analysis and of the update
\* ------------------------------------------------------------------------

\* form_identify_dof and form_count_dof build the same E, over the vertices
\* that are not fixed
AnalysisSameE ==
    /\ identified.has =>
           /\ count_E(identified.on) = identify_E(identified.on)
           /\ Range(identify_free(identified.on)) =
                  {i \in 0..(Len(identified.on.keys) - 1) : ~identified.on.is_fixed[i + 1]}
    /\ counted.has => count_E(counted.on) = identify_E(counted.on)

\* C14: form_identify_dof, form_count_dof and form_update_q_from_qind build
\* E over the same free vertices, all but the fixed ones, so that the E
\* form_update_q_from_qind solves is the E whose edges form_identify_dof
\* parted into independent and dependent.
C14_SameFreeSet ==
    ret.op = "form_update_q_from_qind" =>
        /\ Range(updq_free(ret.form0)) =
               {i \in 0..(Len(ret.form0.keys) - 1) : ~ret.form0.is_fixed[i + 1]}
        /\ updq_free(ret.form0) = identify_free(ret.form0)
        /\ updq_free(ret.form0) = count_free(ret.form0)
        /\ updq_E(ret.form0) = identify_E(ret.form0)

\* ------------------------------------------------------------------------
\* claims: the independent edges form_identify_dof returns
\* ------------------------------------------------------------------------

C17_EmptyCollectionFails ==
    (Computed /\ cret.cs = <<>>) =>
        /\ cret.out.status # "ok"
        /\ cret.out.status = "IndexError"

\* compute_constraints has been called on the collection as __init__ left
\* it, which is still empty
C17_Witness ==
    /\ Computed
    /\ cret.cs = <<>> /\ constraints = <<>> /\ added = <<>>
    /\ cret.out.status = "IndexError"

====
